---- MODULE Spec2Model ----
(***************************************************************************)
(* A model of ASGLM_pairwise (allensdk/model/glif/ASGLM.py): the pairwise  *)
(* search over candidate decay-rate pairs for the after-spike-current fit. *)
(*                                                                         *)
(* Conventions.                                                            *)
(*  - Python lists and numpy arrays are TLA+ sequences; the Python index t *)
(*    is position t+1.  Spike indices, ks_ind and kkk keep their Python    *)
(*    (0-based) values.                                                    *)
(*  - A float is a pair <<num, den>>: den > 0 is the rational num/den in   *)
(*    lowest terms, den = 0 is not-a-number.  Arithmetic is exact, so      *)
(*    floating-point rounding is not modelled.                             *)
(*  - The sample interval dt is 1/dtInv seconds for an integer dtInv.      *)
(*  - The regression (statsmodels) is an external library: what it returns *)
(*    for a (candidate, sweep) unit is read from fitOracle, an input       *)
(*    chosen with the other inputs.                                        *)
(***************************************************************************)
EXTENDS Integers, Sequences, FiniteSets, TLC

\* ------------------------------------------------------------- bounds
MaxRates == 6
MaxSweeps == 2
SweepLen == 5
MaxCut == 2

\* -------------------------------------------------- program constants
ncos == 2
nkt == 8000
tst == 0
ExpectedPairs == 10

\* ------------------------------------------------------------- floats
RECURSIVE Gcd(_, _)
Gcd(a, b) ==
    IF b = 0 THEN a ELSE Gcd(b, a % b)

Abs(n) ==
    IF n < 0 THEN -n ELSE n

NaN ==
    <<0, 0>>

IsNaN(x) ==
    x[2] = 0

\* num/den in lowest terms with a positive denominator; x/0 is not-a-number
Frac(n, d) ==
    IF d = 0 THEN NaN
    ELSE LET g == Gcd(Abs(n), Abs(d))
             s == IF d < 0 THEN -1 ELSE 1
         IN  <<(s * n) \div g, (s * d) \div g>>

Flt(n) ==
    <<n, 1>>

FMul(x, y) ==
    IF IsNaN(x) \/ IsNaN(y) THEN NaN ELSE Frac(x[1] * y[1], x[2] * y[2])

FDiv(x, y) ==
    IF IsNaN(x) \/ IsNaN(y) THEN NaN ELSE Frac(x[1] * y[2], x[2] * y[1])

FAdd(x, y) ==
    IF IsNaN(x) \/ IsNaN(y) THEN NaN
    ELSE Frac(x[1] * y[2] + y[1] * x[2], x[2] * y[2])

\* IEEE comparison: every comparison with not-a-number is false
FEq(x, y) ==
    ~IsNaN(x) /\ ~IsNaN(y) /\ x[1] * y[2] = y[1] * x[2]

FLe(x, y) ==
    ~IsNaN(x) /\ ~IsNaN(y) /\ x[1] * y[2] <= y[1] * x[2]

\* ------------------------------------------------------------- inputs
FitPhrases ==
    {"asc", "ascR", "ascREl", "ascRElC", "ascC"}

\* the i-th candidate rate (1/s) of the caller's list
RateAt(i) ==
    i * i + 2

RateLists ==
    {[i \in 1..n |-> RateAt(i)] : n \in 0..MaxRates}

\* 1/dt: dt is 1/8 s or 5 ms
DtInvs ==
    {8, 200}

\* spike-index lists of a sweep: none; one at index 0 and one inside; two
\* with overlapping windows given out of order, one at the last sample, one
\* past the end
SpikeLists ==
    {<<>>, <<0, 3>>, <<2, 1, SweepLen - 1, SweepLen + 2>>}

StimAt(ss, t) ==
    10 * (ss + 1) + t

VoltAt(ss, t) ==
    t * t - 3 * ss

\* sweep ss (0-based) has SweepLen + ss samples
LenOfSweep(ss) ==
    SweepLen + ss

SpikeInputs ==
    UNION {[1..n -> SpikeLists] : n \in 0..MaxSweeps}

StimFor(n) ==
    [r \in 1..n |-> [t \in 1..LenOfSweep(r - 1) |-> StimAt(r - 1, t - 1)]]

VoltFor(n) ==
    [r \in 1..n |-> [t \in 1..LenOfSweep(r - 1) |-> VoltAt(r - 1, t - 1)]]

\* the regression's behaviour over the units: which units raise, and which
\* table of log-likelihoods the others return
FitOracles ==
    [fail : {"none", "one", "sweep0"}, table : {1, 2}] \
        {[fail |-> "sweep0", table |-> 2], [fail |-> "one", table |-> 2]}

\* ---------------------------------------------------------- variables
VARIABLES
    \* the arguments of the call
    ks_int, I_stim, voltage, spike_ind, cinit, tauinit, SCL, dtInv,
    fit_phrase, SHORT_RUN,
    \* the regression library's behaviour
    fitOracle,
    \* control: the statement the call is at, the exception it raised, the
    \* tuple it returned
    pc, err, ret,
    \* locals
    ks_list, t0_list, ks_pairs, ks_pairs_in_SI_units, ks_ind, kkk,
    basis_IPSP_list,
    i_all_swps_list, b_ipsp_all_swps_list, v_all_swps_list, dv_all_swps_list,
    R_for_each_sweep, asc_amp_for_each_sweep, El_for_each_sweep,
    C_for_each_sweep, llh_for_each_sweep,
    R_for_all_ks_pairs, asc_amp_for_all_ks_pairs, El_for_all_ks_pairs,
    C_for_all_ks_pairs, llh_for_all_ks_pairs,
    best_ks_pair_ind

args ==
    <<ks_int, I_stim, voltage, spike_ind, cinit, tauinit, SCL, dtInv,
      fit_phrase, SHORT_RUN, fitOracle>>

setupVars ==
    <<ks_list, t0_list, ks_pairs, ks_pairs_in_SI_units>>

swpsVars ==
    <<i_all_swps_list, b_ipsp_all_swps_list, v_all_swps_list,
      dv_all_swps_list>>

eachVars ==
    <<R_for_each_sweep, asc_amp_for_each_sweep, El_for_each_sweep,
      C_for_each_sweep, llh_for_each_sweep>>

allVars ==
    <<R_for_all_ks_pairs, asc_amp_for_all_ks_pairs, El_for_all_ks_pairs,
      C_for_all_ks_pairs, llh_for_all_ks_pairs>>

vars ==
    <<args, pc, err, ret, setupVars, ks_ind, kkk, basis_IPSP_list, swpsVars,
      eachVars, allVars, best_ks_pair_ind>>

\* Python's None
None ==
    "None"

Init ==
    /\ ks_int \in RateLists
    /\ spike_ind \in SpikeInputs
    /\ I_stim = StimFor(Len(spike_ind))
    /\ voltage = VoltFor(Len(spike_ind))
    /\ cinit = Frac(13, 100)
    /\ tauinit = Frac(1, 40)
    /\ SCL \in 0..MaxCut
    /\ dtInv \in DtInvs
    /\ fit_phrase \in FitPhrases
    /\ SHORT_RUN \in BOOLEAN
    /\ fitOracle \in FitOracles
    /\ pc = "check_phrase"
    /\ err = None
    /\ ret = None
    /\ ks_list = <<>>
    /\ t0_list = <<>>
    /\ ks_pairs = <<>>
    /\ ks_pairs_in_SI_units = <<>>
    /\ ks_ind = 0
    /\ kkk = 0
    /\ basis_IPSP_list = <<>>
    /\ i_all_swps_list = <<>>
    /\ b_ipsp_all_swps_list = <<>>
    /\ v_all_swps_list = <<>>
    /\ dv_all_swps_list = <<>>
    /\ R_for_each_sweep = <<>>
    /\ asc_amp_for_each_sweep = <<>>
    /\ El_for_each_sweep = <<>>
    /\ C_for_each_sweep = <<>>
    /\ llh_for_each_sweep = <<>>
    /\ R_for_all_ks_pairs = <<>>
    /\ asc_amp_for_all_ks_pairs = <<>>
    /\ El_for_all_ks_pairs = <<>>
    /\ C_for_all_ks_pairs = <<>>
    /\ llh_for_all_ks_pairs = <<>>
    /\ best_ks_pair_ind = None

\* raise: the call ends with exception e and returns nothing
Raise(e) ==
    /\ pc' = "raised"
    /\ err' = e

\* ------------------------------------------------ lines 13-14
\* a check that lets every phrase of the callers through
AnyFitPhrase ==
    FitPhrases

ValidFitPhrases ==
    {"asc", "ascR", "ascREl", "ascRElC"}

CheckFitPhrase ==
    /\ pc = "check_phrase"
    /\ IF fit_phrase \notin ValidFitPhrases
       THEN Raise("fit_phrase")
       ELSE pc' = "convert" /\ err' = err
    /\ UNCHANGED <<args, ret, setupVars, ks_ind, kkk, basis_IPSP_list,
                   swpsVars, eachVars, allVars, best_ks_pair_ind>>

\* ------------------------------------------------ lines 27-33
\* a pre-factor without the milliseconds
PreFactorSeconds(q) ==
    FDiv(Flt(1), Frac(1, q))

\* f = 1e-3/dt
PreFactor(q) ==
    FDiv(Frac(1, 1000), Frac(1, q))

\* taus_int, taus_filter and ks_list of one rate kk
TauInt(kk) ==
    FDiv(Flt(1000), Flt(kk))

TauFilter(kk, q) ==
    FMul(PreFactor(q), TauInt(kk))

KsFilter(kk, q) ==
    FDiv(Flt(1), TauFilter(kk, q))

ConvertRates ==
    /\ pc = "convert"
    /\ ks_list' = [i \in 1..Len(ks_int) |-> KsFilter(ks_int[i], dtInv)]
    /\ pc' = "collect"
    /\ UNCHANGED <<args, err, ret, t0_list, ks_pairs, ks_pairs_in_SI_units,
                   ks_ind, kkk, basis_IPSP_list, swpsVars, eachVars, allVars,
                   best_ks_pair_ind>>

\* ------------------------------------------------ lines 40-54
\* a filter that keeps the spikes at tst and at tend too
CollectT0Inclusive(spikes, tend) ==
    SelectSeq(spikes, LAMBDA s : s >= tst /\ s <= tend)

\* the spikes of one sweep that lie strictly between tst and tend, in order
CollectT0(spikes, tend) ==
    SelectSeq(spikes, LAMBDA s : s > tst /\ s < tend)

CollectSpikes ==
    /\ pc = "collect"
    /\ t0_list' = [mm \in 1..Len(I_stim) |->
                      CollectT0(spike_ind[mm], Len(I_stim[mm]))]
    /\ pc' = "pairs"
    /\ UNCHANGED <<args, err, ret, ks_list, ks_pairs, ks_pairs_in_SI_units,
                   ks_ind, kkk, basis_IPSP_list, swpsVars, eachVars, allVars,
                   best_ks_pair_ind>>

\* ------------------------------------------------ lines 59-60
\* <<x>> \o c for every c of cs, in order
RECURSIVE PrependAll(_, _)
PrependAll(x, cs) ==
    IF cs = <<>> THEN <<>>
    ELSE <<(<<x>> \o Head(cs))>> \o PrependAll(x, Tail(cs))

\* itertools.combinations(xs, r): the r-element subsequences of xs, in
\* lexicographic order of their positions
\* combinations with replacement: an element may pair with itself
RECURSIVE CombinationsWithReplacement(_, _)
CombinationsWithReplacement(xs, r) ==
    IF r = 0 THEN << <<>> >>
    ELSE IF xs = <<>> THEN <<>>
    ELSE PrependAll(Head(xs), CombinationsWithReplacement(xs, r - 1))
             \o CombinationsWithReplacement(Tail(xs), r)

RECURSIVE Combinations(_, _)
Combinations(xs, r) ==
    IF r = 0 THEN << <<>> >>
    ELSE IF Len(xs) < r THEN <<>>
    ELSE PrependAll(Head(xs), Combinations(Tail(xs), r - 1))
             \o Combinations(Tail(xs), r)

MakePairs ==
    /\ pc = "pairs"
    /\ ks_pairs' = Combinations(ks_list, ncos)
    /\ ks_pairs_in_SI_units' = Combinations(ks_int, ncos)
    /\ pc' = "check_count"
    /\ UNCHANGED <<args, err, ret, ks_list, t0_list, ks_ind, kkk,
                   basis_IPSP_list, swpsVars, eachVars, allVars,
                   best_ks_pair_ind>>

\* ------------------------------------------------ lines 61-62
CheckPairCount ==
    /\ pc = "check_count"
    /\ IF Len(ks_pairs) # ExpectedPairs
       THEN Raise("pair_count")
       ELSE pc' = "short_run" /\ err' = err
    /\ UNCHANGED <<args, ret, setupVars, ks_ind, kkk, basis_IPSP_list,
                   swpsVars, eachVars, allVars, best_ks_pair_ind>>

\* ------------------------------------------------ lines 64-78
Min(a, b) ==
    IF a < b THEN a ELSE b

\* line 78: the loop runs over zip(ks_pairs, ks_pairs_in_SI_units)
NumCandidates(pairs, pairsSI) ==
    Min(Len(pairs), Len(pairsSI))

\* the statement after the head of the candidate loop, entered with index ind
LoopHead(ind, pairs, pairsSI) ==
    IF ind < NumCandidates(pairs, pairsSI) THEN "basis" ELSE "select"

\* a loop set-up that ignores SHORT_RUN
ShortRunIgnored ==
    /\ pc = "short_run"
    /\ ks_pairs' = ks_pairs
    /\ R_for_all_ks_pairs' = <<>>
    /\ asc_amp_for_all_ks_pairs' = <<>>
    /\ El_for_all_ks_pairs' = <<>>
    /\ C_for_all_ks_pairs' = <<>>
    /\ llh_for_all_ks_pairs' = <<>>
    /\ ks_ind' = 0
    /\ pc' = LoopHead(0, ks_pairs', ks_pairs_in_SI_units)
    /\ UNCHANGED <<args, err, ret, ks_list, t0_list, ks_pairs_in_SI_units,
                   kkk, basis_IPSP_list, swpsVars, eachVars,
                   best_ks_pair_ind>>

ShortRun ==
    /\ pc = "short_run"
    /\ ks_pairs' = IF SHORT_RUN THEN <<ks_pairs[1]>> ELSE ks_pairs
    /\ R_for_all_ks_pairs' = <<>>
    /\ asc_amp_for_all_ks_pairs' = <<>>
    /\ El_for_all_ks_pairs' = <<>>
    /\ C_for_all_ks_pairs' = <<>>
    /\ llh_for_all_ks_pairs' = <<>>
    /\ ks_ind' = 0
    /\ pc' = LoopHead(0, ks_pairs', ks_pairs_in_SI_units)
    /\ UNCHANGED <<args, err, ret, ks_list, t0_list, ks_pairs_in_SI_units,
                   kkk, basis_IPSP_list, swpsVars, eachVars,
                   best_ks_pair_ind>>

\* ------------------------------------------------ lines 80-111
\* GLM.create_basis_IPSP: the basis matrix of one sweep, one row per sample.
\* A row is kept symbolically as the lags t - s of the spikes s whose kernel
\* covers sample t (kernels start at the spike, are nkt long, and add up);
\* column j of the row is the sum over these lags of exp(-ks[j] * lag).
BasisRow(t0, t) ==
    LET covering == SelectSeq(t0, LAMBDA s : s <= t /\ t - s < nkt)
    IN  [k \in 1..Len(covering) |-> t - covering[k]]

CreateBasisIPSP(t0, stim) ==
    [t \in 1..Len(stim) |-> BasisRow(t0, t - 1)]

\* line 92, si = t0_list[0][0]-10, is evaluated for every sweep, plotting or
\* not: it raises IndexError when the first sweep has no retained spike
PlotStartRaises(t0s) ==
    t0s[1] = <<>>

\* lines 86-92: whether the basis loop over the sweeps stim raises
BasisLoopRaises(stim, t0s) ==
    Len(stim) > 0 /\ PlotStartRaises(t0s)

BuildBasis ==
    /\ pc = "basis"
    /\ IF BasisLoopRaises(I_stim, t0_list)
       THEN /\ Raise("IndexError")
            /\ basis_IPSP_list' = <<CreateBasisIPSP(t0_list[1], I_stim[1])>>
       ELSE /\ basis_IPSP_list' =
                   [rr \in 1..Len(I_stim) |->
                       CreateBasisIPSP(t0_list[rr], I_stim[rr])]
            /\ pc' = "mask"
            /\ err' = err
    /\ UNCHANGED <<args, ret, setupVars, ks_ind, kkk, swpsVars, eachVars,
                   allVars, best_ks_pair_ind>>

\* ------------------------------------------------ lines 177-243
\* Python 2 range(a, b)
PyRange(a, b) ==
    [k \in 1..(IF b > a THEN b - a ELSE 0) |-> a + k - 1]

\* arr[a:b] for 0 <= a and any b (a negative b counts from the end)
PySlice(arr, a, b) ==
    LET e == IF b < 0 THEN Len(arr) + b ELSE Min(b, Len(arr))
    IN  SubSeq(arr, a + 1, e)

\* the indices a list of index lists names
Flatten(delpts) ==
    UNION {{delpts[k][j] : j \in DOMAIN delpts[k]} : k \in DOMAIN delpts}

RECURSIVE KeepFrom(_, _, _)
KeepFrom(arr, t, gone) ==
    IF t > Len(arr) THEN <<>>
    ELSE (IF (t - 1) \in gone THEN <<>> ELSE <<arr[t]>>)
             \o KeepFrom(arr, t + 1, gone)

\* np.delete(arr, obj, 0) of the numpy releases that run this Python 2 code:
\* indices outside [0, N) and negative indices are ignored, the others are
\* removed once each
NpDelete(arr, delpts) ==
    LET N == Len(arr)
        gone == {x \in Flatten(delpts) : x >= 0 /\ x < N}
    IN  KeepFrom(arr, 1, gone)

\* windows one sample too long
DelPtsInclusive(t0, npcut) ==
    [kk \in 1..Len(t0) |-> PyRange(t0[kk] - tst, t0[kk] - tst + npcut + 1)]

\* line 192-194
DelPts(t0, npcut) ==
    [kk \in 1..Len(t0) |-> PyRange(t0[kk] - tst, t0[kk] - tst + npcut)]

\* line 189: dv = (vs-v)/dt
Derivative(volt, tend, q) ==
    LET v == PySlice(volt, tst, tend - 1)
        vs == PySlice(volt, tst + 1, tend)
    IN  [t \in 1..Len(v) |-> FDiv(Flt(vs[t] - v[t]), Frac(1, q))]

MaskI(ss) ==
    NpDelete(PySlice(I_stim[ss], tst, Len(I_stim[ss]) - 1),
             DelPts(t0_list[ss], SCL))

MaskB(ss) ==
    NpDelete(PySlice(basis_IPSP_list[ss], tst, Len(I_stim[ss]) - 1),
             DelPts(t0_list[ss], SCL))

MaskV(ss) ==
    NpDelete(PySlice(voltage[ss], tst, Len(I_stim[ss]) - 1),
             DelPts(t0_list[ss], SCL))

MaskDv(ss) ==
    NpDelete(Derivative(voltage[ss], Len(I_stim[ss]), dtInv),
             DelPts(t0_list[ss], SCL))

\* a loop that stops one sweep early
FitHeadShort(k, n) ==
    IF k < n - 1 THEN "fit" ELSE "append"

\* the statement after the head of the sweep loop of the fit
FitHead(k, n) ==
    IF k < n THEN "fit" ELSE "append"

MaskSweeps ==
    /\ pc = "mask"
    /\ i_all_swps_list' = [ss \in 1..Len(I_stim) |-> MaskI(ss)]
    /\ b_ipsp_all_swps_list' = [ss \in 1..Len(I_stim) |-> MaskB(ss)]
    /\ v_all_swps_list' = [ss \in 1..Len(I_stim) |-> MaskV(ss)]
    /\ dv_all_swps_list' = [ss \in 1..Len(I_stim) |-> MaskDv(ss)]
    /\ R_for_each_sweep' = <<>>
    /\ asc_amp_for_each_sweep' = <<>>
    /\ El_for_each_sweep' = <<>>
    /\ C_for_each_sweep' = <<>>
    /\ llh_for_each_sweep' = <<>>
    /\ kkk' = 0
    /\ pc' = FitHead(0, Len(I_stim))
    /\ UNCHANGED <<args, err, ret, setupVars, ks_ind, basis_IPSP_list,
                   allVars, best_ks_pair_ind>>

\* ------------------------------------------------ lines 244-303
\* Whether sm.GLM(...).fit() raises for candidate c, sweep k (both 0-based):
\* "one" fails the single unit (1, 0), "sweep0" fails the first sweep of
\* every candidate.
FitRaises(o, c, k) ==
    \/ o.fail = "one" /\ c = 1 /\ k = 0
    \/ o.fail = "sweep0" /\ k = 0

\* res.llf of a unit whose fit succeeds.  Table 1: candidate 1 is the best,
\* then 2, then 0.  Table 2: over two sweeps candidates 2, 5 and 7 have the
\* same mean; over one sweep candidate 7 is the best.
FitLlf(o, c, k) ==
    IF o.table = 1
    THEN (CASE c = 0 -> Flt(-5 - k)
            [] c = 1 -> Flt(-1 - k)
            [] c = 2 -> Flt(-3 - k)
            [] OTHER -> Flt(-6 - c - k))
    ELSE (CASE c \in {2, 5} -> Flt(-3 + k)
            [] c = 7 -> Flt(-1 - 3 * k)
            [] OTHER -> Flt(-9 - k))

\* res.params of a unit whose fit succeeds: two amplitudes, then the
\* coefficient of the voltage column
FitParams(o, c, k) ==
    <<Flt(c + 1), Flt(-(k + 1)), Flt(c + k + 2)>>

\* line 284
FitR(fitprs) ==
    FDiv(tauinit, FMul(fitprs[ncos + 1], cinit))

\* line 285
FitAscAmp(fitprs) ==
    SubSeq(fitprs, 1, ncos)

\* lines 279-297: the unit's llh, fit_R and fit_asc_amp
FitUnit(o, c, k) ==
    IF FitRaises(o, c, k)
    THEN [llh |-> NaN, fit_R |-> NaN, fit_asc_amp |-> [j \in 1..ncos |-> NaN]]
    ELSE [llh |-> FitLlf(o, c, k),
          fit_R |-> FitR(FitParams(o, c, k)),
          fit_asc_amp |-> FitAscAmp(FitParams(o, c, k))]

FitSweep ==
    /\ pc = "fit"
    /\ LET u == FitUnit(fitOracle, ks_ind, kkk)
       IN  /\ R_for_each_sweep' = Append(R_for_each_sweep, u.fit_R)
           /\ asc_amp_for_each_sweep' =
                  Append(asc_amp_for_each_sweep, u.fit_asc_amp)
           /\ El_for_each_sweep' = Append(El_for_each_sweep, None)
           /\ C_for_each_sweep' = Append(C_for_each_sweep, None)
           /\ llh_for_each_sweep' = Append(llh_for_each_sweep, u.llh)
    /\ kkk' = kkk + 1
    /\ pc' = FitHead(kkk + 1, Len(v_all_swps_list))
    /\ UNCHANGED <<args, err, ret, setupVars, ks_ind, basis_IPSP_list,
                   swpsVars, allVars, best_ks_pair_ind>>

\* ------------------------------------------------ lines 354-358
AppendCandidate ==
    /\ pc = "append"
    /\ R_for_all_ks_pairs' = Append(R_for_all_ks_pairs, R_for_each_sweep)
    /\ asc_amp_for_all_ks_pairs' =
           Append(asc_amp_for_all_ks_pairs, asc_amp_for_each_sweep)
    /\ El_for_all_ks_pairs' = Append(El_for_all_ks_pairs, El_for_each_sweep)
    /\ C_for_all_ks_pairs' = Append(C_for_all_ks_pairs, C_for_each_sweep)
    /\ llh_for_all_ks_pairs' =
           Append(llh_for_all_ks_pairs, llh_for_each_sweep)
    /\ ks_ind' = ks_ind + 1
    /\ pc' = LoopHead(ks_ind + 1, ks_pairs, ks_pairs_in_SI_units)
    /\ UNCHANGED <<args, err, ret, setupVars, kkk, basis_IPSP_list, swpsVars,
                   eachVars, best_ks_pair_ind>>

\* ------------------------------------------------ lines 361-362
RECURSIVE FSum(_)
FSum(xs) ==
    IF xs = <<>> THEN Flt(0) ELSE FAdd(Head(xs), FSum(Tail(xs)))

\* np.mean of one row: not-a-number when the row is empty or holds one
NpMean(xs) ==
    IF xs = <<>> THEN NaN ELSE FDiv(FSum(xs), Flt(Len(xs)))

\* np.max: not-a-number when any entry is
NpMax(xs) ==
    IF \E i \in DOMAIN xs : IsNaN(xs[i]) THEN NaN
    ELSE xs[CHOOSE i \in DOMAIN xs : \A j \in DOMAIN xs : FLe(xs[j], xs[i])]

\* np.where(m == xs)[0]: the 0-based indices whose entry compares equal to m
NpWhereEq(m, xs) ==
    {i - 1 : i \in {j \in DOMAIN xs : FEq(m, xs[j])}}

\* the last hit instead of the first
SetMax(S) ==
    CHOOSE x \in S : \A y \in S : x >= y

SetMin(S) ==
    CHOOSE x \in S : \A y \in S : x <= y

AveLlh(llhs) ==
    [c \in 1..Len(llhs) |-> NpMean(llhs[c])]

Select ==
    /\ pc = "select"
    /\ LET ave_llh_for_each_pair == AveLlh(llh_for_all_ks_pairs)
           hits == NpWhereEq(NpMax(ave_llh_for_each_pair),
                             ave_llh_for_each_pair)
       IN  IF hits = {}
           THEN Raise("IndexError") /\ best_ks_pair_ind' = best_ks_pair_ind
           ELSE /\ best_ks_pair_ind' = SetMin(hits)
                /\ pc' = "return"
                /\ err' = err
    /\ UNCHANGED <<args, ret, setupVars, ks_ind, kkk, basis_IPSP_list,
                   swpsVars, eachVars, allVars>>

\* ------------------------------------------------ lines 364-382
\* line 364: np.array(ks_pairs[best_ks_pair_ind])/dt
BestKPair(pair, q) ==
    [j \in 1..Len(pair) |-> FDiv(pair[j], Frac(1, q))]

\* a return that takes the rows of the first candidate
ReturnFirstRows ==
    /\ pc = "return"
    /\ ret' = [best_k_pair |-> BestKPair(ks_pairs[best_ks_pair_ind + 1], dtInv),
               best_asc_amp |-> asc_amp_for_all_ks_pairs[1],
               best_R |-> R_for_all_ks_pairs[1],
               best_C |-> C_for_all_ks_pairs[1],
               best_El |-> El_for_all_ks_pairs[1],
               best_llh |-> llh_for_all_ks_pairs[1]]
    /\ pc' = "done"
    /\ UNCHANGED <<args, err, setupVars, ks_ind, kkk, basis_IPSP_list,
                   swpsVars, eachVars, allVars, best_ks_pair_ind>>

Return ==
    /\ pc = "return"
    /\ ret' = [best_k_pair |-> BestKPair(ks_pairs[best_ks_pair_ind + 1], dtInv),
               best_asc_amp |-> asc_amp_for_all_ks_pairs[best_ks_pair_ind + 1],
               best_R |-> R_for_all_ks_pairs[best_ks_pair_ind + 1],
               best_C |-> C_for_all_ks_pairs[best_ks_pair_ind + 1],
               best_El |-> El_for_all_ks_pairs[best_ks_pair_ind + 1],
               best_llh |-> llh_for_all_ks_pairs[best_ks_pair_ind + 1]]
    /\ pc' = "done"
    /\ UNCHANGED <<args, err, setupVars, ks_ind, kkk, basis_IPSP_list,
                   swpsVars, eachVars, allVars, best_ks_pair_ind>>

\* ------------------------------------------------ the call
Next ==
    \/ CheckFitPhrase
    \/ ConvertRates
    \/ CollectSpikes
    \/ MakePairs
    \/ CheckPairCount
    \/ ShortRun
    \/ BuildBasis
    \/ MaskSweeps
    \/ FitSweep
    \/ AppendCandidate
    \/ Select
    \/ Return

Spec ==
    Init /\ [][Next]_vars

\* ------------------------------------------------ shared by the claims
NumSweeps ==
    Len(I_stim)

\* the candidates the loop of line 78 evaluates
Evaluated ==
    NumCandidates(ks_pairs, ks_pairs_in_SI_units)

\* every evaluated candidate's row has been appended
AllAppended ==
    /\ pc \in {"select", "return", "done", "raised"}
    /\ Len(llh_for_all_ks_pairs) = Evaluated
    /\ Evaluated > 0

\* the units whose recorded log-likelihood is not-a-number
FailedUnits ==
    {u \in (1..Len(llh_for_all_ks_pairs)) \X (1..NumSweeps) :
        IsNaN(llh_for_all_ks_pairs[u[1]][u[2]])}

\* the call has ended
Ended ==
    pc \in {"done", "raised"}

\* the mean of a row of integer-valued log-likelihoods, from its definition
ArithMean(row) ==
    Frac(FSum(row)[1], Len(row))

RowHasNaN(row) ==
    \E k \in DOMAIN row : IsNaN(row[k])

\* ------------------------------------------------ C1
\* C1: when the regression fails for exactly one (sweep, candidate) unit and
\* succeeds for every other, the call does not raise: it ends by returning,
\* the failed unit is recorded as not-a-number in llh, R and both amplitudes,
\* and the returned best candidate is one of the candidates.
C1_OneFailureDoesNotRaise ==
    (Ended /\ AllAppended /\ Cardinality(FailedUnits) = 1
           /\ Evaluated * NumSweeps > 1)
        => /\ pc = "done"
           /\ \A u \in FailedUnits :
                  /\ IsNaN(R_for_all_ks_pairs[u[1]][u[2]])
                  /\ \A j \in 1..ncos :
                         IsNaN(asc_amp_for_all_ks_pairs[u[1]][u[2]][j])
           /\ best_ks_pair_ind \in 0..(Evaluated - 1)

\* ------------------------------------------------ C2
\* C2: the index the selector returns names a candidate whose arithmetic mean
\* of per-sweep log-likelihoods is the maximum over all candidates, and no
\* earlier candidate in enumeration order has that same mean.
C2_SelectsFirstArgmax ==
    (pc \in {"return", "done"})
        => LET b == best_ks_pair_ind + 1
               mean(c) == ArithMean(llh_for_all_ks_pairs[c])
           IN  /\ b \in 1..Len(llh_for_all_ks_pairs)
               /\ \A c \in 1..Len(llh_for_all_ks_pairs) :
                      /\ ~RowHasNaN(llh_for_all_ks_pairs[c])
                      /\ mean(c)[1] * mean(b)[2] <= mean(b)[1] * mean(c)[2]
                      /\ (c < b => mean(c) # mean(b))

\* a run that returned a candidate which is not the first and which shares its
\* maximal mean with a later candidate
C2_Witness ==
    /\ pc = "done"
    /\ best_ks_pair_ind > 0
    /\ \E c \in 1..Len(llh_for_all_ks_pairs) :
           /\ c > best_ks_pair_ind + 1
           /\ llh_for_all_ks_pairs[c] # llh_for_all_ks_pairs[best_ks_pair_ind + 1]
           /\ ArithMean(llh_for_all_ks_pairs[c])
                  = ArithMean(llh_for_all_ks_pairs[best_ks_pair_ind + 1])

\* ------------------------------------------------ C3
\* C3: when every candidate has at least one failed sweep, so that every mean
\* is not-a-number, the selector still yields an index and the call returns
\* its six-element result instead of raising.
C3_AllNaNStillReturns ==
    (Ended /\ AllAppended /\ NumSweeps > 0
           /\ \A c \in 1..Len(llh_for_all_ks_pairs) :
                  RowHasNaN(llh_for_all_ks_pairs[c]))
        => /\ pc = "done"
           /\ best_ks_pair_ind \in 0..(Evaluated - 1)
           /\ DOMAIN ret = {"best_k_pair", "best_asc_amp", "best_R", "best_C",
                            "best_El", "best_llh"}

\* ------------------------------------------------ C4
\* n*(n-1)/2 for the n rates of the call, from the formula
PairCountOf(n) ==
    (n * (n - 1)) \div 2

NothingFitted ==
    /\ ret = None
    /\ best_ks_pair_ind = None
    /\ llh_for_each_sweep = <<>>
    /\ R_for_each_sweep = <<>>
    /\ asc_amp_for_each_sweep = <<>>
    /\ llh_for_all_ks_pairs = <<>>
    /\ basis_IPSP_list = <<>>
    /\ pc \notin {"basis", "mask", "fit", "append", "select", "return", "done"}

\* C4: a fit phrase outside 'asc', 'ascR', 'ascREl', 'ascRElC', or a number
\* of candidate pairs other than the expected 10, aborts the call: nothing is
\* returned and no unit is fitted.  The fit phrase is checked before anything
\* else is computed, so an invalid phrase is the error raised whatever the
\* pair count is.
C4_ConfigErrorsAbort ==
    /\ (fit_phrase \notin {"asc", "ascR", "ascREl", "ascRElC"})
           => /\ NothingFitted
              /\ pc \in {"check_phrase", "raised"}
              /\ (pc = "raised" => err = "fit_phrase")
              /\ ks_list = <<>> /\ t0_list = <<>> /\ ks_pairs = <<>>
              /\ ks_pairs_in_SI_units = <<>>
    /\ (/\ fit_phrase \in {"asc", "ascR", "ascREl", "ascRElC"}
        /\ PairCountOf(Len(ks_int)) # 10)
           => /\ NothingFitted
              /\ pc \in {"check_phrase", "convert", "collect", "pairs",
                         "check_count", "raised"}
              /\ (pc = "raised" => err = "pair_count")

\* the call has raised for its fit phrase although its pair count is wrong too
C4_Witness ==
    /\ pc = "raised"
    /\ err = "fit_phrase"
    /\ PairCountOf(Len(ks_int)) # 10
    /\ NumSweeps > 0

\* ------------------------------------------------ C5
\* the position of rate x in the caller's list (the rates are distinct)
PosOf(x) ==
    CHOOSE i \in DOMAIN ks_int : ks_int[i] = x

LexLess(a, b) ==
    a[1] < b[1] \/ (a[1] = b[1] /\ a[2] < b[2])

\* C5: the candidate pairs generated from n rates are the n*(n-1)/2 pairs
\* <<rate i, rate j>> with i < j, each once, in enumeration order (by i, then
\* by j); five rates give 10 pairs.  The pairs in filter units are the same
\* pairs of positions.
C5_PairsAreCombinations ==
    (pc \in {"check_count", "short_run"} \/ (pc = "raised" /\ err = "pair_count"))
        => LET n == Len(ks_int)
               P == ks_pairs_in_SI_units
           IN  /\ Len(P) = PairCountOf(n)
               /\ Len(ks_pairs) = PairCountOf(n)
               /\ (n = 5 => Len(P) = 10)
               /\ \A p \in DOMAIN P :
                      /\ Len(P[p]) = 2
                      /\ \E i, j \in 1..n :
                             i < j /\ P[p] = <<ks_int[i], ks_int[j]>>
                      /\ ks_pairs[p] = <<ks_list[PosOf(P[p][1])],
                                         ks_list[PosOf(P[p][2])]>>
               /\ \A p, q \in DOMAIN P :
                      p < q => LexLess(<<PosOf(P[p][1]), PosOf(P[p][2])>>,
                                       <<PosOf(P[q][1]), PosOf(P[q][2])>>)

\* five rates have given 10 pairs; six have given 15 and the call raised
C5_Witness ==
    \/ pc = "short_run" /\ Len(ks_int) = 5 /\ Len(ks_pairs) = 10
    \/ pc = "raised" /\ Len(ks_int) = 6 /\ Len(ks_pairs) = 15

\* ------------------------------------------------ C6
\* the sweeps of the current candidate have been masked
Masked ==
    /\ pc \in {"fit", "append"}
    /\ Len(dv_all_swps_list) = NumSweeps

\* the distinct indices of the trimmed array of sweep ss that lie in a window
\* [s, s + npcut) of a spike s taken from the list spikes
WindowIndices(ss, spikes) ==
    {x \in 0..(Len(I_stim[ss]) - 2) :
        \E k \in DOMAIN spikes : spikes[k] <= x /\ x < spikes[k] + SCL}

\* the spikes of sweep ss with 0 < s < sweep_length
RetainedSpikes(ss) ==
    SelectSeq(spike_ind[ss], LAMBDA s : 0 < s /\ s < Len(I_stim[ss]))

\* C6 as claimed: the spike-deleted derivative of every sweep has length
\* sweep_length - 1 - D, D the number of distinct valid indices in the windows
\* [s, s + npcut) of all spike indices s of the sweep.
C6_LengthOverAllSpikes ==
    Masked => \A ss \in 1..NumSweeps :
                  Len(dv_all_swps_list[ss]) =
                      Len(I_stim[ss]) - 1
                          - Cardinality(WindowIndices(ss, spike_ind[ss]))

\* C6 as amended: the spike-deleted derivative (and the current, voltage and
\* basis arrays with it) of every sweep has length sweep_length - 1 - D, D the
\* number of distinct valid indices in the windows [s, s + npcut) of the
\* spikes s of the sweep with 0 < s < sweep_length; overlaps count once.
C6_LengthOverRetainedSpikes ==
    Masked => \A ss \in 1..NumSweeps :
                  LET n == Len(I_stim[ss]) - 1
                              - Cardinality(WindowIndices(ss, RetainedSpikes(ss)))
                  IN  /\ Len(dv_all_swps_list[ss]) = n
                      /\ Len(v_all_swps_list[ss]) = n
                      /\ Len(i_all_swps_list[ss]) = n
                      /\ Len(b_ipsp_all_swps_list[ss]) = n

\* a masked sweep whose two spike windows overlap and one of whose windows
\* runs past the end of the trimmed array
C6_Witness ==
    /\ Masked
    /\ SCL = 2
    /\ \E ss \in 1..NumSweeps :
           /\ \E a, b \in DOMAIN spike_ind[ss] : spike_ind[ss][b] = spike_ind[ss][a] + 1
           /\ \E a \in DOMAIN spike_ind[ss] :
                  /\ spike_ind[ss][a] < Len(I_stim[ss]) - 1
                  /\ spike_ind[ss][a] + SCL > Len(I_stim[ss]) - 1
           /\ Len(dv_all_swps_list[ss]) < Len(I_stim[ss]) - 1

\* ------------------------------------------------ C7
\* the call got as far as the candidate loop
PastChecks ==
    /\ pc \notin {"check_phrase", "convert", "collect", "pairs",
                  "check_count", "short_run"}
    /\ err \notin {"fit_phrase", "pair_count"}

\* C7: a sweep with zero spikes, in any position of the sweep list, is not
\* an obstacle: the call goes on to the regression of that sweep, and the
\* sweep's masked current, voltage, derivative and basis arrays are the
\* originals less the one trailing sample.
C7_ZeroSpikeSweepIsFitted ==
    (PastChecks /\ \E ss \in 1..NumSweeps : spike_ind[ss] = <<>>)
        => /\ (pc = "raised" => llh_for_all_ks_pairs # <<>>)
           /\ Masked =>
                  \A ss \in 1..NumSweeps :
                      spike_ind[ss] = <<>> =>
                          /\ i_all_swps_list[ss] =
                                 SubSeq(I_stim[ss], 1, Len(I_stim[ss]) - 1)
                          /\ v_all_swps_list[ss] =
                                 SubSeq(voltage[ss], 1, Len(I_stim[ss]) - 1)
                          /\ Len(dv_all_swps_list[ss]) = Len(I_stim[ss]) - 1
                          /\ b_ipsp_all_swps_list[ss] =
                                 SubSeq(basis_IPSP_list[ss], 1,
                                        Len(I_stim[ss]) - 1)

\* ------------------------------------------------ C8
\* the rates have been converted to filter units
Converted ==
    /\ pc \notin {"check_phrase", "convert"}
    /\ err # "fit_phrase"

\* the way back as claimed: divide by f, then 1000/x
BackByPreFactor(x, q) ==
    FDiv(Flt(1000), FDiv(x, PreFactor(q)))

\* C8 as claimed: rate -> 1000/rate -> times f -> invert, and back by
\* -> divide by f -> 1000/x, recovers every candidate rate.
C8_RoundTripByPreFactor ==
    Converted => \A i \in DOMAIN ks_int :
                     BackByPreFactor(ks_list[i], dtInv) = Flt(ks_int[i])

\* C8 as amended: rate -> 1000/rate -> times f -> invert, and back by
\* dividing by the sample interval dt, recovers every candidate rate; so the
\* best pair the call returns is the selected pair of input rates.
C8_RoundTripBySampleInterval ==
    /\ Converted => \A i \in DOMAIN ks_int :
                        FDiv(ks_list[i], Frac(1, dtInv)) = Flt(ks_int[i])
    /\ pc = "done" =>
           ret.best_k_pair =
               [j \in 1..2 |->
                   Flt(ks_pairs_in_SI_units[best_ks_pair_ind + 1][j])]

\* a call that returned a pair other than the first
C8_Witness ==
    /\ pc = "done"
    /\ best_ks_pair_ind > 0
    /\ ret.best_k_pair = <<Flt(ks_int[1]), Flt(ks_int[3])>>

\* ------------------------------------------------ C9
\* C9: the six values returned all belong to the selected candidate: the
\* amplitude, resistance, capacitance, reversal-potential and log-likelihood
\* arrays are the selected candidate's recorded rows, one entry per sweep in
\* sweep order (entry k is what the regression of sweep k gave), and every
\* capacitance and reversal-potential entry is absent.
C9_ReturnsSelectedRows ==
    pc = "done" =>
        LET b == best_ks_pair_ind + 1
        IN  /\ DOMAIN ret = {"best_k_pair", "best_asc_amp", "best_R",
                             "best_C", "best_El", "best_llh"}
            /\ ret.best_asc_amp = asc_amp_for_all_ks_pairs[b]
            /\ ret.best_R = R_for_all_ks_pairs[b]
            /\ ret.best_C = C_for_all_ks_pairs[b]
            /\ ret.best_El = El_for_all_ks_pairs[b]
            /\ ret.best_llh = llh_for_all_ks_pairs[b]
            /\ ret.best_k_pair[1] = FDiv(ks_list[PosOf(ks_pairs_in_SI_units[b][1])],
                                         Frac(1, dtInv))
            /\ \A f \in {"best_asc_amp", "best_R", "best_C", "best_El",
                         "best_llh"} : Len(ret[f]) = NumSweeps
            /\ \A k \in 1..NumSweeps :
                   /\ ret.best_C[k] = None
                   /\ ret.best_El[k] = None
                   /\ ret.best_llh[k] = FitLlf(fitOracle, b - 1, k - 1)
                   /\ ret.best_asc_amp[k] = <<Flt(b), Flt(-k)>>
                   /\ FMul(ret.best_R[k], FMul(Flt(b + k), cinit)) = tauinit

\* a call that returned the rows of a candidate other than the first, over
\* two sweeps
C9_Witness ==
    /\ pc = "done"
    /\ best_ks_pair_ind > 0
    /\ NumSweeps = 2
    /\ ret.best_llh # llh_for_all_ks_pairs[1]
    /\ ret.best_C = <<None, None>>

\* ------------------------------------------------ C10
\* a list of rows with one row per evaluated candidate, one entry per sweep
FullRows(L) ==
    /\ Len(L) = Evaluated
    /\ \A c \in 1..Evaluated : Len(L[c]) = NumSweeps

\* every unit of every evaluated candidate holds its one recorded result
AllUnitsRecordedOnce ==
    /\ Evaluated > 0
    /\ FullRows(R_for_all_ks_pairs)
    /\ FullRows(asc_amp_for_all_ks_pairs)
    /\ FullRows(El_for_all_ks_pairs)
    /\ FullRows(C_for_all_ks_pairs)
    /\ FullRows(llh_for_all_ks_pairs)
    /\ \A c \in 1..Evaluated : \A k \in 1..NumSweeps :
           llh_for_all_ks_pairs[c][k] = FitUnit(fitOracle, c - 1, k - 1).llh

\* the selection (means and argmax) has started or is over
SelectionReached ==
    \/ pc \in {"select", "return", "done"}
    \/ best_ks_pair_ind # None
    \/ (pc = "raised" /\ err = "IndexError" /\ llh_for_all_ks_pairs # <<>>)

\* C10: when a run reaches the selection, every (sweep, candidate) unit of
\* every evaluated candidate has been computed and recorded exactly once: no
\* mean is taken over a partly filled row, and while the units are still being
\* recorded each row holds exactly the units fitted so far.
C10_SelectionAfterAllUnits ==
    /\ SelectionReached => AllUnitsRecordedOnce
    /\ pc \in {"fit", "append"} =>
           /\ Len(llh_for_each_sweep) = kkk
           /\ Len(llh_for_all_ks_pairs) = ks_ind
           /\ best_ks_pair_ind = None
           /\ (pc = "append" <=> kkk = NumSweeps)

\* the selection is reached with all ten candidates recorded over two sweeps
C10_Witness ==
    /\ pc = "select"
    /\ Len(llh_for_all_ks_pairs) = 10
    /\ NumSweeps = 2
    /\ AllUnitsRecordedOnce

\* ------------------------------------------------ C11
\* the unit (first candidate, sweep ss) has recorded its result
UnitFitted(ss) ==
    \/ Len(llh_for_all_ks_pairs) >= 1
    \/ (pc \in {"fit", "append"} /\ Len(llh_for_each_sweep) >= ss)

\* the spike inputs that agree with this call's on sweep ss and may differ
\* on every other sweep
SameOwnSweep(ss) ==
    {alt \in SpikeInputs : Len(alt) = NumSweeps /\ alt[ss] = spike_ind[ss]}

\* the retained spikes of a call whose spike input is spk
T0ListOf(spk) ==
    [mm \in 1..Len(spk) |-> CollectT0(spk[mm], Len(I_stim[mm]))]

\* C11: a unit reads only its own sweep's data and the seed parameters, so
\* whether it completes does not depend on the data of another sweep: a unit
\* that has recorded its result in this call is also reached by the call
\* whose other sweeps carry any other spike data.
C11_UnitsIndependent ==
    \A ss \in 1..NumSweeps :
        UnitFitted(ss) =>
            \A alt \in SameOwnSweep(ss) :
                ~BasisLoopRaises(I_stim, T0ListOf(alt))

\* ------------------------------------------------ C12
\* the spikes have been collected
Collected ==
    /\ pc \notin {"check_phrase", "convert", "collect"}
    /\ err # "fit_phrase"

\* the positions in the spike list of sweep ss whose spike s has
\* 0 < s < sweep_length
InteriorPositions(ss) ==
    {k \in DOMAIN spike_ind[ss] :
        0 < spike_ind[ss][k] /\ spike_ind[ss][k] < Len(I_stim[ss])}

\* the i-th smallest element of a set of positions
NthOf(R, i) ==
    CHOOSE k \in R : Cardinality({j \in R : j < k}) = i - 1

\* the indices of the trimmed array of sweep ss that no window
\* [s, s + npcut) of an interior spike s covers
Survivors(ss) ==
    {x \in 0..(Len(I_stim[ss]) - 2) :
        \A k \in InteriorPositions(ss) :
            x < spike_ind[ss][k] \/ x >= spike_ind[ss][k] + SCL}

\* C12: the spikes used for basis placement and masking are exactly those
\* with 0 < s < sweep_length, in the order the caller gave them; a spike at
\* index 0 or at an index >= sweep_length is dropped without an error and no
\* sample is deleted for it: the samples that survive masking are exactly
\* those outside the windows of the interior spikes, and no basis kernel
\* starts at a dropped spike.
C12_OnlyInteriorSpikesUsed ==
    /\ Collected =>
           /\ Len(t0_list) = NumSweeps
           /\ \A ss \in 1..NumSweeps :
                  /\ Len(t0_list[ss]) = Cardinality(InteriorPositions(ss))
                  /\ \A i \in DOMAIN t0_list[ss] :
                         t0_list[ss][i] =
                             spike_ind[ss][NthOf(InteriorPositions(ss), i)]
    /\ Masked =>
           \A ss \in 1..NumSweeps :
               /\ Len(i_all_swps_list[ss]) = Cardinality(Survivors(ss))
               /\ {i_all_swps_list[ss][j] : j \in DOMAIN i_all_swps_list[ss]}
                      = {I_stim[ss][x + 1] : x \in Survivors(ss)}
               /\ {v_all_swps_list[ss][j] : j \in DOMAIN v_all_swps_list[ss]}
                      = {voltage[ss][x + 1] : x \in Survivors(ss)}
               /\ Len(dv_all_swps_list[ss]) = Cardinality(Survivors(ss))
               /\ \A t \in DOMAIN basis_IPSP_list[ss] :
                      \A j \in DOMAIN basis_IPSP_list[ss][t] :
                          \E k \in InteriorPositions(ss) :
                              basis_IPSP_list[ss][t][j]
                                  = t - 1 - spike_ind[ss][k]

\* two sweeps have been masked: one with a spike at index 0, whose sample 0
\* survives, and one with out-of-order spikes and a spike past its end
C12_Witness ==
    /\ Masked
    /\ SCL = 2
    /\ \E ss \in 1..NumSweeps :
           /\ \E k \in DOMAIN spike_ind[ss] : spike_ind[ss][k] = 0
           /\ i_all_swps_list[ss][1] = I_stim[ss][1]
           /\ Len(t0_list[ss]) = 1
    /\ \E ss \in 1..NumSweeps :
           /\ \E k \in DOMAIN spike_ind[ss] : spike_ind[ss][k] >= Len(I_stim[ss])
           /\ Len(t0_list[ss]) >= 2
           /\ t0_list[ss][1] > t0_list[ss][2]

\* ------------------------------------------------ C13
\* the call is inside the candidate loop
InCandidateLoop ==
    pc \in {"basis", "mask", "fit", "append"}

\* C13: with SHORT_RUN set the call still raises unless the rates give 10
\* pairs; it evaluates the first candidate pair only, over all sweeps; and
\* whenever that pair's mean log-likelihood is a number it returns that pair,
\* in physical units, and that pair's per-sweep results as the best candidate.
C13_ShortRunFirstPairOnly ==
    SHORT_RUN =>
        /\ (/\ PairCountOf(Len(ks_int)) # 10
            /\ fit_phrase \in {"asc", "ascR", "ascREl", "ascRElC"}
            /\ pc \notin {"check_phrase", "convert", "collect", "pairs",
                          "check_count"})
               => pc = "raised" /\ err = "pair_count" /\ ret = None
        /\ PastChecks => Len(ks_pairs_in_SI_units) = 10
        /\ InCandidateLoop =>
               /\ ks_ind = 0
               /\ llh_for_all_ks_pairs = <<>>
               /\ ks_pairs = << <<KsFilter(ks_int[1], dtInv),
                                  KsFilter(ks_int[2], dtInv)>> >>
        /\ SelectionReached =>
               /\ Len(llh_for_all_ks_pairs) = 1
               /\ Len(llh_for_all_ks_pairs[1]) = NumSweeps
               /\ \A k \in 1..NumSweeps :
                      llh_for_all_ks_pairs[1][k]
                          = FitUnit(fitOracle, 0, k - 1).llh
        /\ (Ended /\ SelectionReached /\ NumSweeps > 0
                  /\ ~RowHasNaN(llh_for_all_ks_pairs[1]))
               => /\ pc = "done"
                  /\ best_ks_pair_ind = 0
                  /\ ret.best_k_pair = <<Flt(ks_int[1]), Flt(ks_int[2])>>
                  /\ ret.best_llh = llh_for_all_ks_pairs[1]
                  /\ ret.best_R = R_for_all_ks_pairs[1]
                  /\ ret.best_asc_amp = asc_amp_for_all_ks_pairs[1]
                  /\ \A k \in 1..NumSweeps :
                         ret.best_llh[k] = FitLlf(fitOracle, 0, k - 1)

\* a short run over two sweeps has returned the first pair although, with
\* this regression, other pairs would have had a higher mean
C13_Witness ==
    /\ SHORT_RUN
    /\ pc = "done"
    /\ NumSweeps = 2
    /\ best_ks_pair_ind = 0
    /\ ret.best_k_pair = <<Flt(ks_int[1]), Flt(ks_int[2])>>
    /\ FLe(ret.best_llh[1], FitLlf(fitOracle, 1, 0))
    /\ ~FEq(ret.best_llh[1], FitLlf(fitOracle, 1, 0))

====
